---------------------------- MODULE Spec2Model ----------------------------
(***************************************************************************)
(* A model of app.py, the JDAS Tailored Industry Updates backend: the      *)
(* token cache, the entity-set resolver, the retrying page request, the    *)
(* gated paged fetch, the response cache, the row normaliser and the       *)
(* industry aggregation.                                                   *)
(*                                                                         *)
(* The program runs on one asyncio event loop: code between two awaits     *)
(* that really suspend (an HTTP request, a sleep, a contended semaphore)   *)
(* is atomic.  Each action below is one such stretch: it resumes a task    *)
(* at its suspension point and runs it to the next one.                    *)
(***************************************************************************)
EXTENDS Integers, Sequences, FiniteSets, TLC

VARIABLES
    enabled,      \* DATAVERSE_ENABLED
    now,          \* now_s(), in seconds
    token,        \* _token_cache.get("token")
    expiry,       \* _token_expiry_ts
    tm,           \* the last call of the token manager (history)
    es_cache,     \* _entityset_cache: logical name -> EntitySetName
    table_cache,  \* table_cache: cache key -> [ts, data]
    gate,         \* gate._value, the free slots of the semaphore
    waiters,      \* gate._waiters, the tasks queued on the semaphore
    task,         \* the requests being served, one record per task
    budget,       \* inbound requests the model still admits
    hist,         \* the histories kept: "page", "cache", "token", "fetch"
    up,           \* what the upstream services may answer
    stat,         \* requests issued so far, by kind (history)
    kq,           \* two requests served from one cache, their keys and queries
    nz,           \* a raw row and the card normalize_row makes of it
    agg           \* one aggregation of an industry's member tables

tokVars == <<token, expiry>>
fetchVars == <<es_cache, table_cache, gate, waiters, task, budget, hist, up, stat>>
calcVars == <<kq, nz, agg>>
vars == <<enabled, now, token, expiry, tm, es_cache, table_cache, gate,
          waiters, task, budget, hist, up, stat,
         kq, nz, agg>>

(***************************************************************************)
(* Bounds of the model.                                                    *)
(***************************************************************************)
TickS == 60          \* the clock advances in steps of TickS seconds
MaxNow == 180        \* ... up to MaxNow

(***************************************************************************)
(* Program constants.                                                      *)
(***************************************************************************)
SKEW == 60           \* _SKEW
MIN_LIFETIME == 60   \* the 60 of max(60, expires_in - _SKEW)

NoToken == 0         \* _token_cache has no "token"

Max(a, b) == IF a >= b THEN a ELSE b

(***************************************************************************)
(* Errors: HTTPException(status, ...) by the line that raises it, and      *)
(* "exception" for anything that is not an HTTPException.                  *)
(***************************************************************************)
Err(status, kind) == [ok |-> FALSE, status |-> status, kind |-> kind]
CfgError == Err(503, "cfg")              \* _assert_cfg
TokenError == Err(502, "token")          \* fetch_access_token, status != 200
TransportError == Err(0, "exception")    \* an httpx exception left uncaught

(***************************************************************************)
(* Token manager.                                                          *)
(***************************************************************************)
\* get_access_token's test, negated: the cached token is reused
TokenFreshSkewTwice(tok, exp, n) == tok # NoToken /\ ~(n + SKEW >= exp)
TokenFresh(tok, exp, n) == tok # NoToken /\ ~(n >= exp)

\* fetch_access_token: _token_expiry_ts = now_s() + max(60, expires_in - _SKEW)
NewExpiryNoFloor(n, expires_in) == n + (expires_in - SKEW)
NewExpiry(n, expires_in) == n + Max(MIN_LIFETIME, expires_in - SKEW)

\* The answers of the identity provider to the credential exchange.
PostOutcomes ==
    [status : {200}, tok : up.tokens, expires_in : up.lifetimes]
        \cup {[status |-> 400, tok |-> NoToken, expires_in |-> 0]}
        \cup {[status |-> 0, tok |-> NoToken, expires_in |-> 0]}   \* timeout

\* What a call of the token manager did: the slot before it, and its result.
TmRecord(op, posted, ret) ==
    [op |-> op, at |-> now, tok0 |-> token, exp0 |-> expiry,
     posted |-> posted, ret |-> ret,
     stored0 |-> tm.stored,   \* when the slot it found was stored
     stored |-> tm.stored,    \* when the slot it left was stored
     lifetime |-> 0]          \* the expires_in of the slot it stored

\* fetch_access_token, the exchange answered by o
FetchAccessTokenCall(op, o) ==
    IF ~enabled
    THEN /\ tm' = TmRecord(op, FALSE, CfgError)
         /\ UNCHANGED <<token, expiry>>
    ELSE IF o.status = 0
    THEN /\ tm' = TmRecord(op, TRUE, TransportError)
         /\ UNCHANGED <<token, expiry>>
    ELSE IF o.status # 200
    THEN /\ tm' = TmRecord(op, TRUE, TokenError)
         /\ UNCHANGED <<token, expiry>>
    ELSE /\ expiry' = NewExpiry(now, o.expires_in)
         /\ token' = o.tok
         /\ tm' = [TmRecord(op, TRUE, [ok |-> TRUE, tok |-> o.tok])
                      EXCEPT !.stored = now, !.lifetime = o.expires_in]

\* await get_access_token(), run to completion
GetToken ==
    /\ \E o \in PostOutcomes :
          IF ~enabled
          THEN /\ tm' = TmRecord("get", FALSE, CfgError)
               /\ UNCHANGED <<token, expiry>>
          ELSE IF TokenFresh(token, expiry, now)
          THEN /\ tm' = TmRecord("get", FALSE, [ok |-> TRUE, tok |-> token])
               /\ UNCHANGED <<token, expiry>>
          ELSE FetchAccessTokenCall("get", o)
    /\ UNCHANGED <<enabled, now, fetchVars, calcVars>>

\* await fetch_access_token(), run to completion (the refresh on a 401)
Refresh ==
    /\ \E o \in PostOutcomes : FetchAccessTokenCall("refresh", o)
    /\ UNCHANGED <<enabled, now, fetchVars, calcVars>>

Tick ==
    /\ now + TickS <= MaxNow
    /\ now' = now + TickS
    /\ UNCHANGED <<enabled, token, expiry, tm, fetchVars, calcVars>>

(***************************************************************************)
(* Strings are sequences of characters; a name of the configuration that   *)
(* holds neither "|" nor white space is kept as one character-like word.   *)
(***************************************************************************)
None == [is |-> "none"]
Str(s) == [is |-> "str", s |-> s]

DigitChars == <<"0", "1", "2", "3", "4", "5", "6", "7", "8", "9">>

RECURSIVE IntToStr(_)
\* str(n) of a natural number
IntToStr(n) ==
    IF n < 10 THEN <<DigitChars[n + 1]>>
    ELSE IntToStr(n \div 10) \o <<DigitChars[(n % 10) + 1]>>

Range(f) == {f[x] : x \in DOMAIN f}

\* d[k] = d.get(k, 0) + 1 of a history counter
Inc(d, k) == IF k \in DOMAIN d THEN [d EXCEPT ![k] = @ + 1] ELSE (k :> 1) @@ d
Count(d, k) == IF k \in DOMAIN d THEN d[k] ELSE 0

(***************************************************************************)
(* Configuration.                                                          *)
(***************************************************************************)
CACHE_TTL_S == 120               \* CACHE_TTL_S, by default
UPSTREAM_MAX_CONCURRENCY == 1    \* UPSTREAM_MAX_CONCURRENCY, set by the environment
DEFAULT_ORDERBY == <<"createdon", " ", "desc">>

\* TABLE_REGISTRY: table key -> logical name
TableKeys ==
    {"marketinsight", "housingmarketinsight", "vehiclesalesforecast",
     "analyticsparadigm", "marketoutlook", "markettrendinsight",
     "marketanalysis", "aiindustryinsight"}
Logical(table_key) == <<"jdas_", table_key>>

(***************************************************************************)
(* The upstream service.                                                   *)
(***************************************************************************)
MaxPages == 2        \* a fetch has at most MaxPages pages
MaxCalls == 3        \* inbound requests admitted in one behaviour


\* The schema is stable: a logical name has one EntitySetName.
UpstreamEntitySet(logical) == logical \o <<"es">>

\* answers to the metadata lookup of resolve_entity_set_from_logical
MetaOutcomes(logical) ==
    {[status |-> 200, name |-> UpstreamEntitySet(logical)],
     [status |-> 200, name |-> <<>>],
     [status |-> 404, name |-> <<>>],
     [status |-> 0, name |-> <<>>]}

\* answers to a page request: a status (0: a timeout), rows, a next link
Retryable == {429, 500, 502, 503, 504}
GetOutcomes(pg) ==
    [status : {200}, rows : up.rows, more : {m \in BOOLEAN : m => pg + 1 < MaxPages}]
        \cup [status : up.statuses, rows : {<<>>}, more : {FALSE}]

(***************************************************************************)
(* Requests and tasks.                                                     *)
(***************************************************************************)
\* a request of an endpoint; describe takes the logical name of table_key
ReqOf(endpoint, table_key) ==
    [endpoint |-> endpoint, table_key |-> table_key, top |-> 10,
     orderby |-> DEFAULT_ORDERBY, extra |-> None]
Req(table_key) == ReqOf("raw_table", table_key)

\* the response of an endpoint whose call returned or raised res: raw_table
\* and summary_cards_single catch HTTPException and Exception, describe
\* catches nothing and the framework answers with the exception's status
Respond(endpoint, res) ==
    IF res.ok THEN [http |-> 200, ok |-> TRUE]
    ELSE IF endpoint \in {"raw_table", "summary_cards_single"}
    THEN [http |-> 200, ok |-> FALSE,
          status |-> IF res.kind = "exception" THEN 500 ELSE res.status]
    ELSE [http |-> IF res.kind = "exception" THEN 500 ELSE res.status]
NoResp == [http |-> 0]

Tasks == {"t1", "t2"}

NoRes == Err(0, "none")
IdleTask ==
    [pc |-> "idle", req |-> Req(""), es |-> <<>>,
     hdr |-> NoToken,        \* the token of dv_paged_get's headers
     rhdr |-> NoToken,       \* the token of dv_get_json's headers
     i |-> 0,                \* the step of the ladder, 1..Len(Delays)
     last_exc |-> FALSE,     \* last_exc is not None
     out |-> <<>>, pg |-> 0, \* out, and the pages it holds
     res |-> NoRes,          \* what the call returned or raised
     resp |-> NoResp,        \* what the endpoint answered
     \* history of the call, kept when "cache" \in hist
     tc0 |-> <<>>,           \* table_cache when the call began
     es0 |-> <<>>,           \* _entityset_cache when the call began
     m0 |-> 0,               \* metadata lookups of its logical name by then
     chk |-> -1,             \* now_s() at its cache lookup
     p0 |-> 0,               \* paged fetches of its cache key by then
     \* history of the page request, kept when "page" \in hist
     gets |-> 0, refr |-> 0, \* the GETs and the refreshes it issued
     log |-> <<>>,           \* the answers it received: <<"get" or "post", status>>
     \* history of the paged fetch, kept when "fetch" \in hist
     flog |-> <<>>,          \* the answers to the requests of all its pages
     slept |-> <<>>]         \* the delays it slept

\* delays of dv_get_json, in milliseconds
DelaysThree == <<200, 500, 1000>>
Delays == <<200, 500, 1000, 2000>>

(***************************************************************************)
(* The stretches of code between suspension points, as functions of a      *)
(* configuration c: the running task (c.me) and the shared state.          *)
(***************************************************************************)
S(t) ==
    [t |-> t, me |-> task[t], gate |-> gate, waiters |-> waiters,
     token |-> token, expiry |-> expiry, es_cache |-> es_cache,
     table_cache |-> table_cache, stat |-> stat]

Commit(c) ==
    /\ task' = [task EXCEPT ![c.t] = c.me]
    /\ gate' = c.gate
    /\ waiters' = c.waiters
    /\ token' = c.token
    /\ expiry' = c.expiry
    /\ es_cache' = c.es_cache
    /\ table_cache' = c.table_cache
    /\ stat' = c.stat

\* raise, outside the gate
Fail(c, e) ==
    [c EXCEPT !.me.pc = "failed", !.me.res = e,
              !.me.resp = Respond(c.me.req.endpoint, e)]

\* return rows
Done(c, rows) ==
    [c EXCEPT !.me.pc = "done", !.me.res = [ok |-> TRUE, value |-> rows],
              !.me.resp = Respond(c.me.req.endpoint, [ok |-> TRUE, value |-> rows])]

\* gate.release(): the slot goes to the first waiter, if any
Release(c) ==
    IF c.waiters = <<>> THEN [c EXCEPT !.gate = @ + 1]
    ELSE [c EXCEPT !.waiters = Tail(@)]

\* raise, inside "async with gate": __aexit__ releases the slot
FailKeepsSlot(c, e) == Fail(c, e)
FailInGate(c, e) == Fail(Release(c), e)

\* c.post(TOKEN_URL, ...) of fetch_access_token
SendPost(c, pc) == [c EXCEPT !.me.pc = pc]

\* the suspension points inside fetch_access_token
PostPcs == {"respost", "pgpost", "refpost"}

\* the exchange of task c.t answered with o, for the history: raced when
\* another task's exchange was awaiting its answer
Exchange(c, o) ==
    [tok |-> o.tok, expires_in |-> o.expires_in, at |-> now, by |-> c.t,
     raced |-> \E u \in Tasks \ {c.t} : task[u].pc \in PostPcs]

\* fetch_access_token after a 200: the expiry, then the token, with no
\* await between the two
StoreTokenKeepsExpiry(c, o) ==
    [c EXCEPT !.token = o.tok,
              !.stat.xch = IF "token" \in hist THEN Exchange(c, o) ELSE @]
StoreToken(c, o) ==
    [c EXCEPT !.expiry = NewExpiry(now, o.expires_in), !.token = o.tok,
              !.stat.xch = IF "token" \in hist THEN Exchange(c, o) ELSE @]

\* c.get(url, headers=headers, ...) of dv_get_json
SendGet(c, pc) ==
    [c EXCEPT !.me.pc = pc, !.me.gets = IF "page" \in hist THEN @ + 1 ELSE @]

\* an answer, recorded; for the fetch, with the page it belongs to and the
\* token of the headers the request was sent with
Recv(c, kind, status) ==
    [c EXCEPT !.me.log = IF "page" \in hist THEN Append(@, <<kind, status>>) ELSE @,
              !.me.flog = IF "fetch" \in hist
                          THEN Append(@, [kind |-> kind, status |-> status,
                                          pg |-> c.me.pg, sent |-> c.me.rhdr])
                          ELSE @]

\* dv_get_json(next_url, headers=headers) up to its first request
DvGetJson(c) ==
    SendGet([c EXCEPT !.me.i = 1, !.me.last_exc = FALSE, !.me.rhdr = c.me.hdr,
                      !.me.gets = 0, !.me.refr = 0, !.me.log = <<>>,
                      !.me.slept = <<>>], "get")

\* dv_paged_get inside the gate: tok = await get_access_token(), then the
\* first page
AfterGate(c) ==
    IF ~enabled THEN FailInGate(c, CfgError)
    ELSE IF TokenFresh(c.token, c.expiry, now)
    THEN DvGetJson([c EXCEPT !.me.hdr = c.token])
    ELSE SendPost(c, "pgpost")

\* dv_paged_get up to the gate
DvPagedGetChecksLate(c) ==
    LET c1 == [c EXCEPT !.me.out = <<>>, !.me.pg = 0] IN
    IF c1.gate > 0
    THEN (IF ~enabled THEN Fail([c1 EXCEPT !.gate = @ - 1], CfgError)
          ELSE AfterGate([c1 EXCEPT !.gate = @ - 1]))
    ELSE [c1 EXCEPT !.me.pc = "gatewait", !.waiters = Append(@, c.t)]
DvPagedGetNoGate(c) ==
    IF ~enabled THEN Fail(c, CfgError)
    ELSE AfterGate([c EXCEPT !.me.out = <<>>, !.me.pg = 0, !.gate = @ - 1])
DvPagedGet(c) ==
    IF ~enabled THEN Fail(c, CfgError)
    ELSE LET c1 == [c EXCEPT !.me.out = <<>>, !.me.pg = 0] IN
         IF c1.gate > 0 THEN AfterGate([c1 EXCEPT !.gate = @ - 1])
         ELSE [c1 EXCEPT !.me.pc = "gatewait", !.waiters = Append(@, c.t)]

\* f"{table_key}|{entity_set}|{top}|{orderby}|{extra or ''}|ALL"
CacheKey(table_key, entity_set, top, orderby, extra) ==
    <<table_key, "|">> \o entity_set \o <<"|">> \o IntToStr(top) \o <<"|">>
        \o orderby \o <<"|">>
        \o (IF extra.is = "none" \/ extra.s = <<>> THEN <<>> ELSE extra.s)
        \o <<"|", "ALL">>

KeyOf(me) ==
    CacheKey(me.req.table_key, me.es, me.req.top, me.req.orderby, me.req.extra)

\* cache_fresh
CacheFreshInclusive(ts, ttl) == (now - ts) <= ttl
CacheFresh(ts, ttl) == (now - ts) < ttl

\* resolve_entity_set_from_logical returned: fetch_table_all_columns from
\* the cache lookup on, or describe's dv_paged_get
AfterResolve(c) ==
    LET cache_key == KeyOf(c.me)
        c1 == IF "cache" \in hist
              THEN [c EXCEPT !.me.chk = now, !.me.p0 = Count(c.stat.paged, cache_key)]
              ELSE c
    IN
    IF c.me.req.endpoint = "describe" THEN DvPagedGet(c)
    ELSE IF cache_key \in DOMAIN c.table_cache
          /\ CacheFresh(c.table_cache[cache_key].ts, CACHE_TTL_S)
    THEN Done([c1 EXCEPT !.stat.hits = Inc(@, cache_key)],
              c.table_cache[cache_key].data)
    ELSE DvPagedGet([c1 EXCEPT !.stat.paged = Inc(@, cache_key)])

\* dv_paged_get returns out; table_cache[cache_key] = {"ts": now_s(), "data": rows}
\* of fetch_table_all_columns, or rows[:1] of describe
PagedReturn(c) ==
    LET c1 == Release(c) IN
    IF c.me.req.endpoint = "describe" THEN Done(c1, SubSeq(c.me.out, 1, 1))
    ELSE IF c.me.req.endpoint = "dv_paged_get" THEN Done(c1, c.me.out)
    ELSE
    Done([c1 EXCEPT !.table_cache =
                 (KeyOf(c.me) :> [ts |-> now, data |-> c.me.out]) @@ @],
         c.me.out)

\* c.get(url, headers=headers) of resolve_entity_set_from_logical
SendMetaGet(c) ==
    [c EXCEPT !.me.pc = "metaget",
              !.stat.meta = Inc(@, Logical(c.me.req.table_key))]

\* resolve_entity_set_from_logical up to its first request
ResolveIgnoresCache(c) ==
    IF ~enabled THEN Fail(c, CfgError)
    ELSE IF TokenFresh(c.token, c.expiry, now) THEN SendMetaGet(c)
    ELSE SendPost(c, "respost")
Resolve(c) ==
    LET key == Logical(c.me.req.table_key) IN
    IF ~enabled THEN Fail(c, CfgError)
    ELSE IF key \in DOMAIN c.es_cache
    THEN AfterResolve([c EXCEPT !.me.es = c.es_cache[key]])
    ELSE IF TokenFresh(c.token, c.expiry, now) THEN SendMetaGet(c)
    ELSE SendPost(c, "respost")

\* fetch_table_all_columns up to its first suspension
FetchTableAllColumns(c) ==
    IF c.me.req.table_key \notin TableKeys
    THEN Fail(c, Err(404, "unknown_table"))
    ELSE Resolve(c)

\* the body of an endpoint up to its first suspension; "dv_paged_get" is
\* a call of that function by itself
Endpoint(c) ==
    IF c.me.req.endpoint = "describe" THEN Resolve(c)
    ELSE IF c.me.req.endpoint = "dv_paged_get" THEN DvPagedGet(c)
    ELSE FetchTableAllColumns(c)

\* dv_get_json: except (ReadTimeout, ConnectTimeout, RemoteProtocolError)
Timeout(c) ==
    [c EXCEPT !.me.last_exc = TRUE, !.me.pc = "sleep",
              !.me.slept = IF "page" \in hist THEN Append(@, Delays[c.me.i]) ELSE @]

\* dv_get_json: await asyncio.sleep(delay); continue
Sleep(c) ==
    [c EXCEPT !.me.pc = "sleep",
              !.me.slept = IF "page" \in hist THEN Append(@, Delays[c.me.i]) ELSE @]

\* dv_paged_get: a page arrived
PageOkCachesEachPage(c, r) ==
    LET c1 == [c EXCEPT !.me.out = @ \o r.rows, !.me.pg = @ + 1,
                        !.table_cache =
                            (KeyOf(c.me) :> [ts |-> now, data |-> c.me.out \o r.rows]) @@ @]
    IN IF r.more THEN DvGetJson(c1) ELSE PagedReturn(c1)
PageOk(c, r) ==
    LET c1 == [c EXCEPT !.me.out = @ \o r.rows, !.me.pg = @ + 1] IN
    IF r.more THEN DvGetJson(c1) ELSE PagedReturn(c1)

\* dv_get_json from "if r.status_code == 200" on
OnStatusRetries401(c, r) ==
    IF r.status = 200 THEN PageOk(c, r)
    ELSE IF r.status \in Retryable \cup {401} THEN Sleep(c)
    ELSE FailInGate(c, Err(r.status, "upstream"))
OnStatus(c, r) ==
    IF r.status = 200 THEN PageOk(c, r)
    ELSE IF r.status \in Retryable THEN Sleep(c)
    ELSE FailInGate(c, Err(r.status, "upstream"))

\* dv_get_json: the loop is over
Exhausted(c) ==
    FailInGate(c, IF c.me.last_exc THEN Err(504, "timeout")
                  ELSE Err(503, "unavailable"))

(***************************************************************************)
(* Actions: an inbound request, and the events that resume a task.         *)
(***************************************************************************)
Others == <<enabled, now, tm, hist, up, calcVars>>

\* a request arrives at an endpoint
Start(t) ==
    /\ task[t].pc = "idle"
    /\ budget > 0
    /\ budget' = budget - 1
    /\ \E rq \in up.reqs :
          Commit(Endpoint(
              [S(t) EXCEPT !.me =
                  IF "cache" \in hist
                  THEN [IdleTask EXCEPT !.pc = "run", !.req = rq,
                                        !.tc0 = table_cache, !.es0 = es_cache,
                                        !.m0 = Count(stat.meta, Logical(rq.table_key))]
                  ELSE [IdleTask EXCEPT !.pc = "run", !.req = rq]]))
    /\ UNCHANGED Others

\* the credential exchange of resolve's get_access_token is answered
ResPostResp(t) ==
    /\ task[t].pc = "respost"
    /\ \E o \in PostOutcomes :
          Commit(IF o.status = 0 THEN Fail(S(t), TransportError)
                 ELSE IF o.status # 200 THEN Fail(S(t), TokenError)
                 ELSE SendMetaGet(StoreToken(S(t), o)))
    /\ UNCHANGED <<Others, budget>>

\* the metadata lookup is answered
MetaGetResp(t) ==
    /\ task[t].pc = "metaget"
    /\ LET key == Logical(task[t].req.table_key) IN
       \E r \in MetaOutcomes(key) :
          Commit(IF r.status = 0 THEN Fail(S(t), TransportError)
                 ELSE IF r.status # 200 THEN Fail(S(t), Err(502, "metadata"))
                 ELSE IF r.name = <<>> THEN Fail(S(t), Err(500, "no_entity_set"))
                 ELSE AfterResolve([S(t) EXCEPT !.es_cache = (key :> r.name) @@ @,
                                                !.me.es = r.name]))
    /\ UNCHANGED <<Others, budget>>

\* a task queued on the gate was given a slot and runs on
GateWake(t) ==
    /\ task[t].pc = "gatewait"
    /\ t \notin Range(waiters)
    /\ Commit(AfterGate(S(t)))
    /\ UNCHANGED <<Others, budget>>

\* the credential exchange of dv_paged_get's get_access_token is answered
PgPostResp(t) ==
    /\ task[t].pc = "pgpost"
    /\ \E o \in PostOutcomes :
          Commit(IF o.status = 0 THEN FailInGate(S(t), TransportError)
                 ELSE IF o.status # 200 THEN FailInGate(S(t), TokenError)
                 ELSE DvGetJson([StoreToken(S(t), o) EXCEPT !.me.hdr = o.tok]))
    /\ UNCHANGED <<Others, budget>>

\* the first GET of a ladder step is answered
GetResp(t) ==
    /\ task[t].pc = "get"
    /\ \E r \in GetOutcomes(task[t].pg) :
          LET c == Recv(S(t), "get", r.status) IN
          Commit(IF r.status = 0 THEN Timeout(c)
                 ELSE IF r.status = 401
                 THEN SendPost([c EXCEPT !.me.refr = IF "page" \in hist THEN @ + 1 ELSE @],
                               "refpost")
                 ELSE OnStatus(c, r))
    /\ UNCHANGED <<Others, budget>>

\* the credential exchange after a 401 is answered
RefPostResp(t) ==
    /\ task[t].pc = "refpost"
    /\ \E o \in PostOutcomes :
          LET c == Recv(S(t), "post", o.status) IN
          Commit(IF o.status = 0 THEN Timeout(c)
                 ELSE IF o.status # 200 THEN FailInGate(c, TokenError)
                 ELSE SendGet([StoreToken(c, o) EXCEPT !.me.rhdr = o.tok], "get2"))
    /\ UNCHANGED <<Others, budget>>

\* the GET repeated after the refresh is answered
Get2Resp(t) ==
    /\ task[t].pc = "get2"
    /\ \E r \in GetOutcomes(task[t].pg) :
          LET c == Recv(S(t), "get", r.status) IN
          Commit(IF r.status = 0 THEN Timeout(c) ELSE OnStatus(c, r))
    /\ UNCHANGED <<Others, budget>>

\* asyncio.sleep(delay) is over: the next step of the ladder, or none
SleepWake(t) ==
    /\ task[t].pc = "sleep"
    /\ Commit(IF task[t].i < Len(Delays)
              THEN SendGet([S(t) EXCEPT !.me.i = @ + 1], "get")
              ELSE Exhausted(S(t)))
    /\ UNCHANGED <<Others, budget>>

\* the endpoint has answered; the task may serve another request
Return(t) ==
    /\ task[t].pc \in {"done", "failed"}
    /\ task' = [task EXCEPT ![t] = IdleTask]
    /\ UNCHANGED <<Others, budget, tokVars, es_cache, table_cache, gate,
                   waiters, stat>>

\* the steps of a task that has the gate to itself
SoloStep(t) ==
    \/ Start(t) \/ ResPostResp(t) \/ MetaGetResp(t)
    \/ PgPostResp(t) \/ GetResp(t) \/ RefPostResp(t) \/ Get2Resp(t)
    \/ SleepWake(t) \/ Return(t)

TaskStep(t) == SoloStep(t) \/ GateWake(t)

(***************************************************************************)
(* Specifications.                                                         *)
(***************************************************************************)
NoCall ==
    [op |-> "none", at |-> 0, tok0 |-> NoToken, exp0 |-> 0,
     posted |-> FALSE, ret |-> [ok |-> TRUE, tok |-> NoToken],
     stored0 |-> 0, stored |-> 0, lifetime |-> 0]

NoExchange ==
    [tok |-> NoToken, expires_in |-> 0, at |-> 0, by |-> "", raced |-> FALSE]
NoStat == [meta |-> <<>>, paged |-> <<>>, hits |-> <<>>, xch |-> NoExchange]
NoKq == [pc |-> "off"]
NoNz == [pc |-> "off"]
NoAgg == [pc |-> "off"]

\* the module's globals after import
Cold ==
    [now |-> 0, token |-> NoToken, expiry |-> 0, es_cache |-> <<>>,
     table_cache |-> <<>>, stat |-> NoStat]

InitFrom(w) ==
    /\ enabled \in BOOLEAN
    /\ now = w.now
    /\ token = w.token
    /\ expiry = w.expiry
    /\ tm = NoCall
    /\ es_cache = w.es_cache
    /\ table_cache = w.table_cache
    /\ gate = UPSTREAM_MAX_CONCURRENCY
    /\ waiters = <<>>
    /\ task = [t \in Tasks |-> IdleTask]
    /\ stat = w.stat
    /\ kq = NoKq /\ nz = NoNz /\ agg = NoAgg

\* the token manager, called in sequence
InitToken ==
    /\ InitFrom(Cold) /\ budget = 0 /\ hist = {}
    /\ up = [reqs |-> {}, tokens |-> {1, 2}, lifetimes |-> {0, 180},
             statuses |-> {}, rows |-> {}]
NextToken == GetToken \/ Refresh \/ Tick
SpecToken == InitToken /\ [][NextToken]_vars

\* requests served in sequence by one task, as time passes
InitSeq ==
    /\ InitFrom(Cold) /\ budget = MaxCalls /\ hist = {"cache"}
    /\ up = [reqs |-> {Req("marketinsight"), Req("nosuchtable")},
             tokens |-> {1}, lifetimes |-> {0, 180},
             statuses |-> {401, 503, 404, 0},
             rows |-> {<<1>>, <<2>>}]
NextSeq == SoloStep("t1") \/ Tick
SpecSeq == InitSeq /\ [][NextSeq]_vars

\* States of the globals that earlier requests leave behind (SpecSeq reaches
\* each of them): a token alone, an expired token with a resolved entity set,
\* and the same with a stale or a fresh cache entry.
WarmKey == Logical("marketinsight")
WarmEntry(ts) ==
    KeyOf([req |-> Req("marketinsight"), es |-> UpstreamEntitySet(WarmKey)])
        :> [ts |-> ts, data |-> <<1>>]
Warm ==
    LET tok == [Cold EXCEPT !.token = 1, !.expiry = NewExpiry(0, 180),
                            !.stat.meta = WarmKey :> 1]
        res == [tok EXCEPT !.es_cache = WarmKey :> UpstreamEntitySet(WarmKey),
                           !.stat.paged = [k \in DOMAIN WarmEntry(0) |-> 1]]
    IN {Cold, tok,
        [res EXCEPT !.now = MaxNow],
        [res EXCEPT !.now = MaxNow, !.table_cache = WarmEntry(0)],
        [res EXCEPT !.table_cache = WarmEntry(0)]}

\* one request served by one task, its page requests recorded
InitPage ==
    /\ \E w \in Warm : InitFrom(w)
    /\ budget = 1 /\ hist = {"page", "cache"}
    /\ up = [reqs |-> {Req("marketinsight"), Req("nosuchtable")},
             tokens |-> {1, 2}, lifetimes |-> {180},
             statuses |-> {401, 429, 503, 404, 501, 0},
             rows |-> {<<1>>}]
NextPage == SoloStep("t1")
SpecPage == InitPage /\ [][NextPage]_vars

\* one request of each endpoint, served by one task
EdgeReqs ==
    {ReqOf(e, k) : e \in {"raw_table", "summary_cards_single", "describe"},
                   k \in {"marketinsight", "nosuchtable"}}
InitEdge ==
    /\ \E w \in Warm : InitFrom(w)
    /\ budget = 1 /\ hist = {}
    /\ up = [reqs |-> EdgeReqs, tokens |-> {1}, lifetimes |-> {180},
             statuses |-> {401, 503, 404, 0}, rows |-> {<<1>>}]
NextEdge == SoloStep("t1")
SpecEdge == InitEdge /\ [][NextEdge]_vars

\* each upstream operation called, with and without the configuration
CfgReqs ==
    {Req("marketinsight"), ReqOf("describe", "marketinsight"),
     ReqOf("dv_paged_get", "marketinsight")}
InitCfg ==
    /\ InitFrom(Cold) /\ budget = 1 /\ hist = {}
    /\ up = [reqs |-> CfgReqs, tokens |-> {1}, lifetimes |-> {180},
             statuses |-> {401, 503, 0}, rows |-> {<<1>>}]
NextCfg == GetToken \/ Refresh \/ SoloStep("t1") \/ Tick
SpecCfg == InitCfg /\ [][NextCfg]_vars

\* one request served by one task, the requests of all its pages recorded
InitFetch ==
    /\ \E w \in Warm : InitFrom(w)
    /\ budget = 1 /\ hist = {"fetch"}
    /\ up = [reqs |-> {Req("marketinsight")},
             tokens |-> {1, 2}, lifetimes |-> {180},
             statuses |-> {401}, rows |-> {<<1>>}]
NextFetch == SoloStep("t1")
SpecFetch == InitFetch /\ [][NextFetch]_vars

\* two tasks whose credential exchanges overlap, as time passes
InitRefresh ==
    /\ InitFrom(Cold) /\ enabled /\ budget = 2 /\ hist = {"token"}
    /\ up = [reqs |-> {Req("marketinsight")},
             tokens |-> {1, 2}, lifetimes |-> {0, 180},
             statuses |-> {401}, rows |-> {<<1>>}]
\* the clock advances while a credential exchange awaits its answer
SlowPost == (\E t \in Tasks : task[t].pc \in PostPcs) /\ Tick
NextRefresh == (\E t \in Tasks : TaskStep(t)) \/ SlowPost
SpecRefresh == InitRefresh /\ [][NextRefresh]_vars

\* the clock advances while no request is in flight
QuietTick == (\A t \in Tasks : task[t].pc = "idle") /\ Tick

\* tasks serving requests concurrently
Init ==
    /\ InitFrom(Cold) /\ budget = MaxCalls /\ hist = {}
    /\ up = [reqs |-> {Req("marketinsight")},
             tokens |-> {1}, lifetimes |-> {0},
             statuses |-> {401, 503, 404, 0},
             rows |-> {<<1>>}]
Next == (\E t \in Tasks : TaskStep(t)) \/ QuietTick
Spec == Init /\ [][Next]_vars

\* the event loop resumes a task whose awaited answer, sleep or slot has
\* come; every request is answered or times out, so a task that can run
\* on does
Resume(t) ==
    \/ ResPostResp(t) \/ MetaGetResp(t) \/ GateWake(t)
    \/ PgPostResp(t) \/ GetResp(t) \/ RefPostResp(t) \/ Get2Resp(t)
    \/ SleepWake(t) \/ Return(t)
\* two requests served concurrently, each resumed whenever it can run on
InitGate ==
    /\ \E w \in {x \in Warm : x.table_cache = <<>>} : InitFrom(w)
    /\ budget = 2 /\ hist = {}
    /\ up = [reqs |-> {Req("marketinsight")},
             tokens |-> {1}, lifetimes |-> {180},
             statuses |-> {401, 503}, rows |-> {<<1>>}]
NextGate == \E t \in Tasks : TaskStep(t)
SpecGate == InitGate /\ [][NextGate]_vars /\ \A t \in Tasks : WF_vars(Resume(t))

\* the globals at rest, for the specifications of the pure functions
Parked ==
    /\ enabled = TRUE /\ now = 0 /\ token = NoToken /\ expiry = 0 /\ tm = NoCall
    /\ es_cache = <<>> /\ table_cache = <<>>
    /\ gate = UPSTREAM_MAX_CONCURRENCY /\ waiters = <<>>
    /\ task = [t \in Tasks |-> IdleTask]
    /\ budget = 0 /\ hist = {} /\ stat = NoStat
    /\ up = [reqs |-> {}, tokens |-> {}, lifetimes |-> {}, statuses |-> {}, rows |-> {}]
parkedVars == <<enabled, now, token, expiry, tm, fetchVars>>

(***************************************************************************)
(* Cache keys and queries: two requests of /api/v1/raw/{table_key} served  *)
(* one after the other within the TTL.  The rows an upstream query returns *)
(* are named by the query itself.                                          *)
(***************************************************************************)
MaxStr == 2

Strings(chars, n) == UNION {[1..k -> chars] : k \in 0..n}

\* quote_plus of urlencode, on the characters the model uses
QuotePlus(ch) ==
    CASE ch = "|" -> "%7C"
      [] ch = " " -> "+"
      [] ch = "$" -> "%24"
      [] OTHER -> ch
UrlEncode(str) == [j \in 1..Len(str) |-> QuotePlus(str[j])]

\* build_query with include_select = False
BuildQuery(entity_set, top, orderby, extra) ==
    entity_set \o <<"?">> \o UrlEncode(<<"$", "top">>) \o <<"=">> \o IntToStr(top)
        \o (IF orderby # <<>>
            THEN <<"&">> \o UrlEncode(<<"$", "orderby">>) \o <<"=">> \o UrlEncode(orderby)
            ELSE <<>>)
        \o (IF extra.is = "none" \/ extra.s = <<>> THEN <<>> ELSE <<"&">> \o extra.s)

EntitySetOf(table_key) == UpstreamEntitySet(Logical(table_key))
KeyOfReq(r) == CacheKey(r.table_key, EntitySetOf(r.table_key), r.top, r.orderby, r.extra)
QueryOfReq(r) == BuildQuery(EntitySetOf(r.table_key), r.top, r.orderby, r.extra)

\* the query parameters of raw_table
RawRequests ==
    [table_key : {"marketinsight", "marketoutlook"},
     top : {1, 10},
     orderby : Strings({"a", "|"}, MaxStr),
     extra : {None} \cup {Str(x) : x \in Strings({"a", "|"}, MaxStr)}]

NoRows == <<"no rows">>

\* fetch_table_all_columns from the cache lookup on, the entity set resolved:
\* the rows returned (named by the query that fetched them) and the cache left behind
Serve(r, cache, upstream_ok) ==
    IF KeyOfReq(r) \in DOMAIN cache
    THEN [rows |-> cache[KeyOfReq(r)], cache |-> cache]
    ELSE IF upstream_ok
    THEN [rows |-> QueryOfReq(r), cache |-> (KeyOfReq(r) :> QueryOfReq(r)) @@ cache]
    ELSE [rows |-> NoRows, cache |-> cache]

ServeFirst ==
    /\ kq.pc = "start"
    /\ \E upstream_ok \in BOOLEAN :
           LET o == Serve(kq.a, kq.cache, upstream_ok)
           IN kq' = [kq EXCEPT !.pc = "first", !.cache = o.cache, !.rows_a = o.rows]
    /\ UNCHANGED <<parkedVars, nz, agg>>

ServeSecond ==
    /\ kq.pc = "first"
    /\ \E upstream_ok \in BOOLEAN :
           LET o == Serve(kq.b, kq.cache, upstream_ok)
           IN kq' = [kq EXCEPT !.pc = "second", !.cache = o.cache, !.rows_b = o.rows]
    /\ UNCHANGED <<parkedVars, nz, agg>>

InitKey ==
    /\ Parked /\ nz = NoNz /\ agg = NoAgg
    /\ \E a, b \in RawRequests :
           kq = [pc |-> "start", a |-> a, b |-> b, cache |-> <<>>,
                 rows_a |-> NoRows, rows_b |-> NoRows]
NextKey == ServeFirst \/ ServeSecond
SpecKey == InitKey /\ [][NextKey]_vars

(***************************************************************************)
(* Normalisation: a raw row (a partial function from column names to JSON  *)
(* values) and the card normalize_row makes of it.  Column names are       *)
(* sequences, so that the primary key is f"{logical}id".                   *)
(***************************************************************************)
MaxLen == 2

IntV(n) == [is |-> "int", n |-> n]
BoolV(b) == [is |-> "bool", b |-> b]

Whitespace == {" ", "\t", "\n", "\r"}

RECURSIVE LStrip(_)
LStrip(str) ==
    IF str # <<>> /\ Head(str) \in Whitespace THEN LStrip(Tail(str)) ELSE str

RECURSIVE RStrip(_)
RStrip(str) ==
    IF str # <<>> /\ str[Len(str)] \in Whitespace
    THEN RStrip(SubSeq(str, 1, Len(str) - 1))
    ELSE str

\* str.strip()
Strip(str) == RStrip(LStrip(str))

\* str(v) of a value that is neither None nor a string
PyStr(v) ==
    IF v.is = "int" THEN IntToStr(v.n)
    ELSE IF v.b THEN <<"T", "r", "u", "e">> ELSE <<"F", "a", "l", "s", "e">>

\* _safe_text
SafeTextKeepsEmpty(v) ==
    IF v.is = "none" THEN None
    ELSE IF v.is = "str" THEN Str(Strip(v.s))
    ELSE Str(Strip(PyStr(v)))
SafeText(v) ==
    IF v.is = "none" THEN None
    ELSE IF v.is = "str"
    THEN (IF Strip(v.s) # <<>> THEN Str(Strip(v.s)) ELSE None)
    ELSE (IF Strip(PyStr(v)) # <<>> THEN Str(Strip(PyStr(v))) ELSE None)

Col(name) == <<name>>

\* TABLE_MAPPINGS
TABLE_MAPPINGS ==
    [marketinsight |->
        [title |-> Col("jdas_marketcategory"), subtitle |-> Col("jdas_marketsizeoverview"),
         body |-> Col("jdas_markettrends"), details |-> Col("jdas_businessimpactanalysis")],
     housingmarketinsight |->
        [title |-> Col("jdas_insighttheme"), subtitle |-> Col("jdas_insightcategory"),
         body |-> Col("jdas_currentinsight"), details |-> Col("jdas_keymarketimplication")],
     vehiclesalesforecast |->
        [title |-> Col("jdas_salesmetric"), subtitle |-> Col("jdas_salesvolumeforecast"),
         body |-> Col("jdas_strategicinsight")],
     analyticsparadigm |->
        [title |-> Col("jdas_analyticsfocus"), subtitle |-> Col("jdas_dimension"),
         body |-> Col("jdas_significance"), tag |-> Col("jdas_paradigmstage")],
     marketoutlook |->
        [title |-> Col("jdas_category"), subtitle |-> Col("jdas_outlookstatus"),
         body |-> Col("jdas_keydrivers"), details |-> Col("jdas_operationalimpact")],
     markettrendinsight |->
        [title |-> Col("jdas_keysignal"), subtitle |-> Col("jdas_insightcategory"),
         body |-> Col("jdas_trendfor2026")],
     marketanalysis |->
        [title |-> Col("jdas_theme"), subtitle |-> Col("jdas_industryreality2026"),
         body |-> Col("jdas_futureimplications")],
     aiindustryinsight |->
        [title |-> Col("jdas_insightcategory"), subtitle |-> Col("jdas_industryphasedescription"),
         body |-> Col("jdas_assistantperspective"), details |-> Col("jdas_futureunifiedview")]]

\* TABLE_DISPLAY_NAMES
TABLE_DISPLAY_NAMES ==
    [marketinsight |-> "Market Insight",
     housingmarketinsight |-> "Housing Market Insight",
     vehiclesalesforecast |-> "Vehicle Sales Forecast",
     analyticsparadigm |-> "Analytics Paradigm",
     marketoutlook |-> "Market Outlook",
     markettrendinsight |-> "Market Trend Insight",
     marketanalysis |-> "Market Analysis",
     aiindustryinsight |-> "AI Industry Insight"]

\* row.get(k)
Get(row, k) == IF k \in DOMAIN row THEN row[k] ELSE None

\* _safe_text(row.get(mapping.get(slot, ""))) if the mapping has the slot
Slot(row, mapping, slot) ==
    IF slot \in DOMAIN mapping THEN SafeText(Get(row, mapping[slot])) ELSE None

PkCol(table_key) == Logical(table_key) \o <<"id">>
IdCols == <<Col("id"), Col("Id"), Col("ID")>>

\* _guess_id
GuessId(row, table_key) ==
    IF table_key \in TableKeys /\ PkCol(table_key) \in DOMAIN row
    THEN SafeText(Get(row, PkCol(table_key)))
    ELSE IF \E j \in 1..Len(IdCols) : IdCols[j] \in DOMAIN row
    THEN LET j == CHOOSE j \in 1..Len(IdCols) :
                     /\ IdCols[j] \in DOMAIN row
                     /\ \A h \in 1..(j - 1) : IdCols[h] \notin DOMAIN row
         IN SafeText(Get(row, IdCols[j]))
    ELSE None

\* normalize_row
NormalizeRow(row, table_key) ==
    IF table_key \notin DOMAIN TABLE_MAPPINGS THEN None
    ELSE LET mapping == TABLE_MAPPINGS[table_key]
             title == SafeText(Get(row, mapping.title))
         IN IF title.is = "none" \/ title.s = <<>> THEN None
            ELSE [id |-> GuessId(row, table_key),
                  table |-> Logical(table_key),
                  logical |-> Logical(table_key),
                  table_key |-> table_key,
                  table_name |-> TABLE_DISPLAY_NAMES[table_key],
                  title |-> title,
                  subtitle |-> Slot(row, mapping, "subtitle"),
                  body |-> Slot(row, mapping, "body"),
                  details |-> Slot(row, mapping, "details"),
                  tag |-> Slot(row, mapping, "tag"),
                  createdOn |-> SafeText(Get(row, Col("createdon")))]

\* the values a column may hold; Absent marks a column the row lacks
Absent == [is |-> "absent"]
Texts == {Str(x) : x \in Strings({" ", "a"}, MaxLen)}
TitleValues == {Absent, None, IntV(0), IntV(10), BoolV(FALSE)} \cup Texts
FewValues == {Absent, None, Str(<<" ">>), Str(<<"a", " ">>)}
IdValues == {Absent, Str(<<" ">>), IntV(7)}

\* the dict with the columns that are present
MakeRow(cells) ==
    LET present == {j \in 1..Len(cells) : cells[j][2] # Absent}
    IN [k \in {cells[j][1] : j \in present} |->
            (CHOOSE v \in {cells[j][2] : j \in present} :
                \E j \in present : cells[j] = <<k, v>>)]

\* raw rows of a table: its mapped columns, createdon and the id columns
Rows(table_key) ==
    LET m == TABLE_MAPPINGS[table_key]
        fourth == IF "details" \in DOMAIN m THEN m.details
                  ELSE IF "tag" \in DOMAIN m THEN m.tag ELSE Col("jdas_unmapped")
    IN {MakeRow(<< <<m.title, t>>, <<m.subtitle, u>>, <<m.body, b>>, <<fourth, d>>,
                   <<Col("createdon"), c>>, <<PkCol(table_key), p>>, <<Col("id"), i>> >>) :
           t \in TitleValues, u \in FewValues, b \in FewValues,
           d \in (IF fourth = Col("jdas_unmapped") THEN {Absent} ELSE FewValues),
           c \in FewValues, p \in IdValues, i \in IdValues}

Normalize ==
    /\ nz.pc = "row"
    /\ nz' = [nz EXCEPT !.pc = "done", !.card = NormalizeRow(nz.row, nz.table_key)]
    /\ UNCHANGED <<parkedVars, kq, agg>>

InitNorm ==
    /\ Parked /\ kq = NoKq /\ agg = NoAgg
    /\ \/ \E tk \in TableKeys : \E row \in Rows(tk) :
              nz = [pc |-> "row", table_key |-> tk, row |-> row, card |-> None]
       \/ \E row \in Rows("marketanalysis") :
              nz = [pc |-> "row", table_key |-> "nosuchtable", row |-> row, card |-> None]
NextNorm == Normalize
SpecNorm == InitNorm /\ [][NextNorm]_vars

(***************************************************************************)
(* Aggregation: one industry's member tables fetched concurrently, each    *)
(* fetch_table_cards call ending as the upstream decides, in any order.    *)
(***************************************************************************)
MaxRows == 1

\* INDUSTRY_TABLE_MAP
INDUSTRY_TABLE_MAP ==
    [real_estate |-> <<"housingmarketinsight", "marketoutlook">>,
     automotive |-> <<"vehiclesalesforecast">>,
     analytics_ops |-> <<"analyticsparadigm">>,
     ai |-> <<"aiindustryinsight">>,
     market |-> <<"marketinsight", "markettrendinsight", "marketanalysis">>]

\* INDUSTRY_DISPLAY
INDUSTRY_DISPLAY ==
    [real_estate |-> "Real Estate", automotive |-> "Automotive",
     analytics_ops |-> "Business Analytics & Ops", ai |-> "AI Developments",
     market |-> "Market Insight"]

\* an awaited call ends by raising or by returning
Raised(e) == [raised |-> TRUE, exc |-> e]
Returned(v) == [raised |-> FALSE, value |-> v]
Pending == [raised |-> FALSE, pending |-> TRUE]

RECURSIVE Cards(_, _)
\* [c for c in (normalize_row(r, table_key) for r in raw_items) if c]
Cards(raw_items, table_key) ==
    IF raw_items = <<>> THEN <<>>
    ELSE LET c == NormalizeRow(Head(raw_items), table_key)
         IN (IF c = None THEN <<>> ELSE <<c>>) \o Cards(Tail(raw_items), table_key)

\* fetch_table_cards, given how fetch_table_all_columns ended
FetchTableCards(table_key, data) ==
    IF data.raised THEN data
    ELSE Returned([ok |-> TRUE,
                   table_key |-> table_key,
                   table_name |-> TABLE_DISPLAY_NAMES[table_key],
                   logical |-> data.value.logical,
                   entity_set |-> data.value.entity_set,
                   count_raw |-> data.value.count,
                   count_cards |-> Len(Cards(data.value.value, table_key)),
                   items |-> Cards(data.value.value, table_key)])

\* code point order of the characters of a createdOn value
CharOrder == <<" ", "0", "1", "2", "3", "4", "5", "6", "7", "8", "9", "a">>
Ord(ch) == CHOOSE j \in 1..Len(CharOrder) : CharOrder[j] = ch

RECURSIVE StrLess(_, _)
\* x < y of two strings
StrLess(x, y) ==
    IF y = <<>> THEN FALSE
    ELSE IF x = <<>> THEN TRUE
    ELSE IF Head(x) # Head(y) THEN Ord(Head(x)) < Ord(Head(y))
    ELSE StrLess(Tail(x), Tail(y))

\* _created_key
CreatedKey(item) == IF item.createdOn = None THEN <<>> ELSE item.createdOn.s

SortDescKeepsOrder(items) == items

RECURSIVE SortDesc(_)
\* list.sort(key=_created_key, reverse=True): stable, newest first
SortDesc(items) ==
    IF items = <<>> THEN <<>>
    ELSE LET rest == SortDesc(SubSeq(items, 1, Len(items) - 1))
             last == items[Len(items)]
             keep == {j \in 1..Len(rest) : ~StrLess(CreatedKey(rest[j]), CreatedKey(last))}
         IN SubSeq(rest, 1, Cardinality(keep)) \o <<last>>
                \o SubSeq(rest, Cardinality(keep) + 1, Len(rest))

RECURSIVE Zip(_, _)
\* the loop over zip(table_keys, results): tables_meta and combined
Zip(table_keys, results) ==
    IF table_keys = <<>> THEN [tables |-> <<>>, combined |-> <<>>]
    ELSE LET tk == Head(table_keys)
             result == Head(results)
             rest == Zip(Tail(table_keys), Tail(results))
         IN IF result.raised
            THEN [rest EXCEPT !.tables =
                     <<[table_key |-> tk, ok |-> FALSE, error |-> result.exc]>> \o @]
            ELSE IF ~result.value.ok
            THEN [rest EXCEPT !.tables =
                     <<[table_key |-> tk, ok |-> FALSE, error |-> result.value]>> \o @]
            ELSE [tables |-> <<[table_key |-> tk,
                                table_name |-> result.value.table_name,
                                logical |-> result.value.logical,
                                count_cards |-> result.value.count_cards,
                                ok |-> TRUE]>> \o rest.tables,
                  combined |-> result.value.items \o rest.combined]

\* the block built from the gathered results
Block(industry_key, table_keys, results) ==
    LET z == Zip(table_keys, results)
    IN [ok |-> TRUE,
        industry |-> industry_key,
        industry_name |-> INDUSTRY_DISPLAY[industry_key],
        tables |-> z.tables,
        count_cards |-> Len(z.combined),
        items |-> SortDesc(z.combined)]

\* raw rows an upstream table may hold
AggRows(table_key) ==
    {MakeRow(<< <<TABLE_MAPPINGS[table_key].title, t>>, <<Col("createdon"), c>> >>) :
        t \in {Str(<<"a">>)},
        c \in {Absent, Str(<<"1">>), Str(<<"1", "2">>), Str(<<"2">>)}}
        \cup {MakeRow(<< <<TABLE_MAPPINGS[table_key].title, Str(<<" ">>)>>,
                         <<Col("createdon"), Str(<<"1">>)>> >>)}

\* how fetch_table_all_columns may end for a table
Fates(table_key) ==
    {Raised(Err(503, "unavailable")), Raised(Err(404, "upstream"))}
        \cup {Returned([ok |-> TRUE, logical |-> Logical(table_key),
                        entity_set |-> EntitySetOf(table_key),
                        count |-> Len(rows), value |-> rows]) :
                 rows \in UNION {[1..n -> AggRows(table_key)] : n \in 0..MaxRows}}

\* how the fetches of an industry's member tables may end, one fate each
FatesOf(table_keys) ==
    IF Len(table_keys) = 1
    THEN {<<a>> : a \in Fates(table_keys[1])}
    ELSE IF Len(table_keys) = 2
    THEN {<<a, b>> : a \in Fates(table_keys[1]), b \in Fates(table_keys[2])}
    ELSE {<<a, b, c>> : a \in Fates(table_keys[1]), b \in Fates(table_keys[2]),
                        c \in Fates(table_keys[3])}

\* industry_updates up to the gather of _fetch_industry
IndustryUpdates ==
    /\ agg.pc = "start" /\ agg.endpoint = "industry_updates"
    /\ agg' = [agg EXCEPT !.pc = "gather"]
    /\ UNCHANGED <<parkedVars, kq, nz>>

\* a member's fetch_table_cards call completes
MemberDone(i) ==
    /\ agg.pc = "gather" /\ i \in DOMAIN agg.results
    /\ agg.results[i] = Pending
    /\ agg' = [agg EXCEPT !.results[i] =
                   FetchTableCards(INDUSTRY_TABLE_MAP[agg.industry][i], agg.fate[i]),
                          !.finished = Append(@, i)]
    /\ UNCHANGED <<parkedVars, kq, nz>>

\* _fetch_industry once the gather has every result
FetchIndustryReturn ==
    /\ agg.pc = "gather"
    /\ \A i \in DOMAIN agg.results : agg.results[i] # Pending
    /\ agg' = [agg EXCEPT !.pc = "returned",
                          !.resp = Block(agg.industry,
                                         INDUSTRY_TABLE_MAP[agg.industry], agg.results)]
    /\ UNCHANGED <<parkedVars, kq, nz>>

\* summary_industry_single: the unpacking of a pending task in the argument
\* list of gather raises RuntimeError before any member is fetched
SummaryIndustrySingle ==
    /\ agg.pc = "start" /\ agg.endpoint = "summary_industry_single"
    /\ agg' = [agg EXCEPT !.pc = "returned",
                          !.resp = IF agg.industry \notin DOMAIN INDUSTRY_TABLE_MAP
                                   THEN Err(404, "unknown_industry")
                                   ELSE Err(500, "RuntimeError")]
    /\ UNCHANGED <<parkedVars, kq, nz>>

AggCall(endpoint, industry, fate) ==
    [pc |-> "start", endpoint |-> endpoint, industry |-> industry, fate |-> fate,
     results |-> [i \in DOMAIN fate |-> Pending],
     finished |-> <<>>,      \* the members in the order their fetches completed
     resp |-> NoRes]

InitAgg ==
    /\ Parked /\ kq = NoKq /\ nz = NoNz
    /\ \/ \E endpoint \in {"industry_updates", "summary_industry_single"} :
          \E industry \in DOMAIN INDUSTRY_TABLE_MAP :
          \E fate \in FatesOf(INDUSTRY_TABLE_MAP[industry]) :
              agg = AggCall(endpoint, industry, fate)
       \/ agg = AggCall("summary_industry_single", "nosuchindustry", <<>>)
NextAgg ==
    \/ IndustryUpdates
    \/ \E i \in 1..3 : MemberDone(i)
    \/ FetchIndustryReturn
    \/ SummaryIndustrySingle
SpecAgg == InitAgg /\ [][NextAgg]_vars

(***************************************************************************)
(* C1: whenever a credential is cached and the time is strictly before its *)
(* stored expiry, get_access_token returns that same token, issues no      *)
(* credential exchange and leaves the token and the expiry unchanged,      *)
(* after any sequence of earlier getToken and refresh operations.          *)
(***************************************************************************)
C1_CachedTokenReused ==
    (tm.op = "get" /\ tm.tok0 # NoToken /\ tm.at < tm.exp0)
        => /\ tm.ret = [ok |-> TRUE, tok |-> tm.tok0]
           /\ ~tm.posted
           /\ token = tm.tok0
           /\ expiry = tm.exp0

\* a reuse after an earlier refresh and after time has passed, within the
\* last second-step before the expiry
C1_Witness ==
    /\ tm.op = "get" /\ tm.tok0 # NoToken /\ tm.at < tm.exp0
    /\ tm.at > 0 /\ tm.at + TickS >= tm.exp0
    /\ tm.ret = [ok |-> TRUE, tok |-> tm.tok0]

(***************************************************************************)
(* C9: two requests that differ in table key, row limit, sort order or     *)
(* filter fragment (an absent filter differing from an empty one, and the  *)
(* strings free to contain the separator) never have the same cache key,   *)
(* and a request is never served rows cached for a different request.      *)
(***************************************************************************)
C9_KeysNeverCollide ==
    /\ kq.pc # "off" =>
          (kq.a # kq.b => KeyOfReq(kq.a) # KeyOfReq(kq.b))
    /\ (kq.pc = "second" /\ kq.rows_b # NoRows) =>
          kq.rows_b = QueryOfReq(kq.b)

\* the second request is answered with the rows of the first one's query
C9_Collision ==
    /\ kq.pc = "second" /\ kq.a # kq.b
    /\ KeyOfReq(kq.a) = KeyOfReq(kq.b)
    /\ QueryOfReq(kq.a) # QueryOfReq(kq.b)
    /\ kq.rows_b = QueryOfReq(kq.a)

(***************************************************************************)
(* C10: normalize_row yields no card for a record whose mapped title field *)
(* is absent, null or whitespace-only; every card it yields has a          *)
(* non-empty title without surrounding whitespace, and each of subtitle,   *)
(* body, details, tag and createdOn is either absent (None) or a non-empty *)
(* trimmed string, never an empty string.                                  *)
(***************************************************************************)
Trimmed(v) ==
    /\ v.is = "str" /\ v.s # <<>>
    /\ v.s[1] \notin Whitespace /\ v.s[Len(v.s)] \notin Whitespace

\* the mapped title column is absent, null or a whitespace-only string
TitleBlank(row, table_key) ==
    LET col == TABLE_MAPPINGS[table_key].title IN
    \/ col \notin DOMAIN row
    \/ row[col] = None
    \/ row[col].is = "str" /\ \A j \in 1..Len(row[col].s) : row[col].s[j] \in Whitespace

C10_CardsAreClean ==
    nz.pc = "done" =>
        /\ (nz.table_key \in TableKeys /\ TitleBlank(nz.row, nz.table_key)) =>
               nz.card = None
        /\ nz.card # None =>
               /\ Trimmed(nz.card.title)
               /\ \A f \in {"subtitle", "body", "details", "tag", "createdOn"} :
                      nz.card[f] = None \/ Trimmed(nz.card[f])

\* a card whose title was padded, with a whitespace-only subtitle and
\* createdon dropped and a body trimmed
C10_Witness ==
    /\ nz.pc = "done" /\ nz.card # None
    /\ nz.table_key = "marketinsight"
    /\ nz.row[Col("jdas_marketcategory")] = Str(<<" ", "a">>)
    /\ nz.card.title = Str(<<"a">>)
    /\ Col("jdas_marketsizeoverview") \in DOMAIN nz.row
    /\ nz.row[Col("jdas_marketsizeoverview")] = Str(<<" ">>)
    /\ nz.card.subtitle = None
    /\ Col("createdon") \in DOMAIN nz.row /\ nz.row[Col("createdon")] = Str(<<" ">>)
    /\ nz.card.createdOn = None
    /\ nz.card.body = Str(<<"a">>)

(***************************************************************************)
(* C11: every inbound data operation (raw table, normalized table,         *)
(* describe resource) turns an upstream or resource error (token failure,  *)
(* metadata lookup failure, non-retryable status, retry exhaustion) into a *)
(* successful-transport response carrying ok = false; no error escapes as  *)
(* a transport-level error.                                                *)
(***************************************************************************)
C11_ErrorsBecomeOkFalse ==
    \A t \in Tasks :
        task[t].pc = "failed" =>
            /\ task[t].resp.http = 200
            /\ "ok" \in DOMAIN task[t].resp
            /\ task[t].resp.ok = FALSE

\* describe answers a metadata lookup failure with a transport-level 502
C11_DescribeEscapes ==
    /\ task["t1"].pc = "failed" /\ task["t1"].req.endpoint = "describe"
    /\ task["t1"].res = Err(502, "metadata")
    /\ task["t1"].resp = [http |-> 502]

\* the same, of the endpoints that catch: raw_table and summary_cards_single
C11_CatchingEndpoints ==
    \A t \in Tasks :
        (task[t].pc = "failed" /\ task[t].req.endpoint # "describe") =>
            /\ task[t].resp.http = 200
            /\ task[t].resp.ok = FALSE
            /\ task[t].resp.status # 0

(***************************************************************************)
(* C2: for one cache key, two calls of fetch_table_all_columns in sequence *)
(* within the TTL window (now - ts < CACHE_TTL_S) invoke the paged fetch   *)
(* once, the second call returning the stored rows; a call made once the   *)
(* TTL has elapsed invokes the paged fetch again and replaces the entry    *)
(* wholesale with a new timestamp and payload.                             *)
(***************************************************************************)
Me == task["t1"]

\* the entry of the call's key was fresh at its cache lookup
WasFresh(me) ==
    /\ KeyOf(me) \in DOMAIN me.tc0
    /\ me.chk - me.tc0[KeyOf(me)].ts < CACHE_TTL_S

C2_OneFetchPerWindow ==
    LET k == KeyOf(Me) IN
    Me.chk >= 0 =>
        IF WasFresh(Me)
        THEN /\ Me.pc = "done"
             /\ Me.res = [ok |-> TRUE, value |-> Me.tc0[k].data]
             /\ Count(stat.paged, k) = Me.p0
             /\ table_cache = Me.tc0
        ELSE /\ Count(stat.paged, k) = Me.p0 + 1
             /\ Me.pc # "done" => table_cache = Me.tc0
             /\ Me.pc = "done" =>
                   /\ DOMAIN table_cache = DOMAIN Me.tc0 \cup {k}
                   /\ table_cache[k].data = Me.res.value
                   /\ Me.chk <= table_cache[k].ts /\ table_cache[k].ts <= now
                   /\ DOMAIN table_cache[k] = {"ts", "data"}

\* three calls for one key: a fetch, a call served from the cache, and, once
\* exactly CACHE_TTL_S have passed, a second fetch that replaced the payload
C2_Witness ==
    LET k == KeyOf(Me) IN
    /\ budget = 0 /\ Me.pc = "done" /\ Me.chk >= 0 /\ ~WasFresh(Me)
    /\ k \in DOMAIN Me.tc0
    /\ Me.chk - Me.tc0[k].ts = CACHE_TTL_S
    /\ Count(stat.paged, k) = 2 /\ Count(stat.hits, k) = 1
    /\ table_cache[k].data # Me.tc0[k].data
    /\ table_cache[k].ts > Me.tc0[k].ts

(***************************************************************************)
(* C3: if a page of a multi-page fetch ultimately fails, the cached fetch  *)
(* fails: the failure reaches the caller, no rows of the pages already     *)
(* retrieved are returned, and table_cache is as it was before the call    *)
(* (no entry is created, a stale one is neither refreshed nor overwritten).*)
(***************************************************************************)
C3_FailedFetchLeavesCache ==
    Me.pc = "failed" =>
        /\ ~Me.res.ok
        /\ DOMAIN Me.res = {"ok", "status", "kind"}
        /\ table_cache = Me.tc0

\* the second page fails for good while a stale entry is cached
C3_Witness ==
    /\ Me.pc = "failed" /\ Me.pg = 1 /\ Me.out # <<>>
    /\ Me.res = Err(503, "unavailable")
    /\ KeyOf(Me) \in DOMAIN Me.tc0 /\ ~WasFresh(Me)

(***************************************************************************)
(* C4: for one page request, k consecutive 503 responses followed by a 200 *)
(* (k at most 3) make the request succeed after exactly k+1 GETs; a 503 to *)
(* every attempt makes it fail with status 503 (upstream unavailable)      *)
(* after exactly 4 GETs, one per step of the ladder [0.2, 0.5, 1.0, 2.0].  *)
(***************************************************************************)
Gets503(k) == [j \in 1..k |-> <<"get", 503>>]
Ladder == <<200, 500, 1000, 2000>>

C4_Retry503 ==
    /\ \A k \in 0..3 :
          Me.log = Gets503(k) \o << <<"get", 200>> >> =>
              /\ Me.pc = "done" /\ Me.res.ok
              /\ Me.gets = k + 1
              /\ Me.slept = SubSeq(Ladder, 1, k)
    /\ \A k \in 1..3 :
          Me.log = Gets503(k) =>
              /\ Me.slept = SubSeq(Ladder, 1, k)
              /\ \/ Me.pc = "sleep" /\ Me.gets = k
                 \/ Me.pc = "get" /\ Me.gets = k + 1
    /\ Me.log = Gets503(4) =>
          /\ Me.gets = 4 /\ Me.slept = Ladder
          /\ \/ Me.pc = "sleep"
             \/ Me.pc = "failed" /\ Me.res = Err(503, "unavailable")
    /\ (Me.pc = "failed" /\ Me.log # <<>> /\ Me.log = Gets503(Len(Me.log))) =>
          Len(Me.log) = 4

\* three 503s and a 200 on the second page of a fetch
C4_Witness ==
    /\ Me.log = Gets503(3) \o << <<"get", 200>> >>
    /\ Me.pc = "done" /\ Me.pg = 2 /\ Me.gets = 4

(***************************************************************************)
(* C5: for one page request, a 401 followed by a 200 gives exactly one     *)
(* credential refresh and a successful retrieval; a 401 whose immediate    *)
(* retry is also 401 makes the request fail with the authorization error   *)
(* (status 401) after exactly one refresh and two GETs, with no further    *)
(* refresh or retry.                                                       *)
(***************************************************************************)
Refreshed == <<"post", 200>>

C5_RefreshOnce ==
    LET n == Len(Me.log) IN
    /\ Me.log = << <<"get", 401>>, Refreshed, <<"get", 200>> >> =>
          /\ Me.pc = "done" /\ Me.res.ok
          /\ Me.refr = 1 /\ Me.gets = 2 /\ Me.slept = <<>>
    /\ Me.log = << <<"get", 401>>, Refreshed, <<"get", 401>> >> =>
          /\ Me.pc = "failed" /\ Me.res = Err(401, "upstream")
          /\ Me.refr = 1 /\ Me.gets = 2 /\ Me.slept = <<>>
    /\ (n >= 3 /\ SubSeq(Me.log, n - 2, n)
                    = << <<"get", 401>>, Refreshed, <<"get", 401>> >>) =>
          Me.pc = "failed" /\ Me.res = Err(401, "upstream")

\* two 401s in a row on the first page, the token slot refreshed once
C5_Witness ==
    /\ Me.log = << <<"get", 401>>, Refreshed, <<"get", 401>> >>
    /\ Me.pc = "failed" /\ Me.refr = 1 /\ Me.gets = 2
    /\ token = Me.rhdr /\ token # Me.hdr

(***************************************************************************)
(* C6: aggregating an industry whose member tables partly fail never fails *)
(* as a whole: the item list holds exactly the cards of the member tables  *)
(* that succeeded, and the per-table status list has one entry per member  *)
(* table, in member order, with ok = false and the error for exactly the   *)
(* failed tables, whichever tables fail and in whatever order the fetches  *)
(* complete.                                                               *)
(***************************************************************************)
CountIn(seq, x) == Cardinality({j \in 1..Len(seq) : seq[j] = x})

RECURSIVE CardsOfSucceeded(_, _)
CardsOfSucceeded(table_keys, fate) ==
    IF table_keys = <<>> THEN <<>>
    ELSE (IF Head(fate).raised THEN <<>>
          ELSE Cards(Head(fate).value.value, Head(table_keys)))
             \o CardsOfSucceeded(Tail(table_keys), Tail(fate))

\* the response isolates the failed member tables
Isolated(resp, table_keys, fate) ==
    /\ resp.ok
    /\ Len(resp.tables) = Len(table_keys)
    /\ \A i \in DOMAIN table_keys :
          /\ resp.tables[i].table_key = table_keys[i]
          /\ resp.tables[i].ok = ~fate[i].raised
          /\ fate[i].raised => resp.tables[i].error = fate[i].exc
    /\ Len(resp.items) = Len(CardsOfSucceeded(table_keys, fate))
    /\ \A j \in DOMAIN resp.items :
          CountIn(resp.items, resp.items[j])
              = CountIn(CardsOfSucceeded(table_keys, fate), resp.items[j])
    /\ \A j \in 1..(Len(resp.items) - 1) :
          ~StrLess(CreatedKey(resp.items[j]), CreatedKey(resp.items[j + 1]))

C6_PartialFailureIsolated ==
    (agg.pc = "returned" /\ agg.industry \in DOMAIN INDUSTRY_TABLE_MAP) =>
        Isolated(agg.resp, INDUSTRY_TABLE_MAP[agg.industry], agg.fate)

\* the same, of the blocks of industry_updates alone
C6_IndustryUpdatesIsolated ==
    (agg.pc = "returned" /\ agg.endpoint = "industry_updates") =>
        Isolated(agg.resp, INDUSTRY_TABLE_MAP[agg.industry], agg.fate)

\* summary_industry_single fails as a whole for the market industry, its
\* second table failing and its first and third holding a card each
C6_SingleFails ==
    /\ agg.pc = "returned" /\ agg.endpoint = "summary_industry_single"
    /\ agg.industry = "market"
    /\ ~agg.fate[1].raised /\ agg.fate[2].raised /\ ~agg.fate[3].raised
    /\ Len(CardsOfSucceeded(INDUSTRY_TABLE_MAP["market"], agg.fate)) = 2
    /\ agg.resp = Err(500, "RuntimeError")

\* a block of industry_updates with its second table failed, the fetches
\* having completed, and the two cards of the other tables sorted
C6_BlockWitness ==
    /\ agg.pc = "returned" /\ agg.endpoint = "industry_updates"
    /\ agg.industry = "market"
    /\ ~agg.fate[1].raised /\ agg.fate[2].raised /\ ~agg.fate[3].raised
    /\ Len(agg.resp.items) = 2
    /\ agg.resp.items[1].table_key = "marketanalysis"
    /\ agg.resp.items[2].table_key = "marketinsight"
    /\ ~agg.resp.tables[2].ok

(***************************************************************************)
(* C12: for every configured industry key, and the same limit, sort order  *)
(* and upstream behaviour, summary_industry_single completes and returns   *)
(* the same combined item list and the same per-table status list as the   *)
(* block industry_updates produces for that industry.                      *)
(***************************************************************************)
\* the block of industry_updates for the call's industry and upstream
BlockOfUpdates ==
    Block(agg.industry, INDUSTRY_TABLE_MAP[agg.industry],
          [i \in DOMAIN agg.fate |->
              FetchTableCards(INDUSTRY_TABLE_MAP[agg.industry][i], agg.fate[i])])

C12_SingleEqualsBlock ==
    (/\ agg.pc = "returned" /\ agg.endpoint = "summary_industry_single"
     /\ agg.industry \in DOMAIN INDUSTRY_TABLE_MAP) =>
        /\ agg.resp.ok
        /\ agg.resp.items = BlockOfUpdates.items
        /\ agg.resp.tables = BlockOfUpdates.tables

\* every member table of real_estate answers, industry_updates would
\* return a block with two cards, and summary_industry_single returns none
C12_SingleDiffers ==
    /\ agg.pc = "returned" /\ agg.endpoint = "summary_industry_single"
    /\ agg.industry = "real_estate"
    /\ \A i \in DOMAIN agg.fate : ~agg.fate[i].raised
    /\ Len(BlockOfUpdates.items) = 2
    /\ \A i \in 1..2 : BlockOfUpdates.tables[i].ok
    /\ ~agg.resp.ok /\ agg.resp.status = 500

(***************************************************************************)
(* C13: when a required identity setting is absent (DATAVERSE_ENABLED is   *)
(* false), every upstream operation (get_access_token, the credential      *)
(* exchange, resolve, the paged fetch) fails with the configuration error  *)
(* (status 503) before issuing any network request, and the credential     *)
(* slot, the mapping cache, the response cache and the gate stay as they   *)
(* were.                                                                   *)
(***************************************************************************)
C13_NoConfigNoRequest ==
    ~enabled =>
        /\ tm.op # "none" => (tm.ret = CfgError /\ ~tm.posted)
        /\ \A t \in Tasks :
              /\ task[t].pc \in {"idle", "failed"}
              /\ task[t].pc = "failed" =>
                    (task[t].res = CfgError /\ task[t].res.status = 503)
        /\ token = NoToken /\ expiry = 0
        /\ es_cache = <<>> /\ table_cache = <<>>
        /\ gate = UPSTREAM_MAX_CONCURRENCY /\ waiters = <<>>
        /\ stat = NoStat

\* without configuration, a credential exchange and then a paged fetch
\* have failed
C13_Witness ==
    /\ ~enabled
    /\ tm.op = "refresh" /\ tm.ret = CfgError
    /\ task["t1"].pc = "failed" /\ task["t1"].req.endpoint = "dv_paged_get"
    /\ task["t1"].res = CfgError
    /\ gate = UPSTREAM_MAX_CONCURRENCY

(***************************************************************************)
(* C14: the combined item list of an industry is ordered by createdOn      *)
(* descending under lexical string comparison (no card with a later        *)
(* createdOn comes after one with an earlier createdOn, and the cards      *)
(* without createdOn come after all cards that have one), and the order is *)
(* the same for every order in which the per-table fetches complete.       *)
(***************************************************************************)
\* x sorts before y as a string: x is a proper prefix of y, or the first
\* character in which they differ is the smaller one in x
LexBefore(x, y) ==
    \/ Len(x) < Len(y) /\ SubSeq(y, 1, Len(x)) = x
    \/ \E j \in 1..Len(x) :
          /\ j <= Len(y)
          /\ SubSeq(x, 1, j - 1) = SubSeq(y, 1, j - 1)
          /\ Ord(x[j]) < Ord(y[j])

C14_NewestFirst ==
    (agg.pc = "returned" /\ agg.resp.ok) =>
        /\ \A j, k \in DOMAIN agg.resp.items :
              j < k =>
                /\ agg.resp.items[j].createdOn = None =>
                       agg.resp.items[k].createdOn = None
                /\ (agg.resp.items[j].createdOn # None
                        /\ agg.resp.items[k].createdOn # None) =>
                       ~LexBefore(agg.resp.items[j].createdOn.s,
                                  agg.resp.items[k].createdOn.s)
        /\ agg.resp.items = BlockOfUpdates.items

\* the market tables hold cards created at "", "12" and "2" and complete in
\* the order 2, 3, 1; the block lists them as "2", "12", ""
C14_Witness ==
    /\ agg.pc = "returned" /\ agg.resp.ok /\ agg.industry = "market"
    /\ agg.finished = <<2, 3, 1>>
    /\ Len(agg.resp.items) = 3
    /\ agg.resp.items[1].createdOn = Str(<<"2">>)
    /\ agg.resp.items[1].table_key = "marketanalysis"
    /\ agg.resp.items[2].createdOn = Str(<<"1", "2">>)
    /\ agg.resp.items[2].table_key = "markettrendinsight"
    /\ agg.resp.items[3].createdOn = None
    /\ agg.resp.items[3].table_key = "marketinsight"

(***************************************************************************)
(* C15: after a successful credential exchange at time t with any declared *)
(* lifetime L (zero and values below the skew included) the stored expiry  *)
(* is t + max(60, L - 60): the credential is not expired when it is        *)
(* stored, and every get_access_token call made before t + 60 reuses the   *)
(* token without a network call.                                           *)
(***************************************************************************)
C15_SixtySecondFloor ==
    /\ (tm.posted /\ tm.ret.ok) =>
          /\ expiry = tm.at + (IF tm.lifetime - 60 > 60 THEN tm.lifetime - 60 ELSE 60)
          /\ token = tm.ret.tok
          /\ tm.at < expiry
    /\ (tm.op = "get" /\ tm.tok0 # NoToken /\ tm.at < tm.stored0 + 60) =>
          /\ ~tm.posted
          /\ tm.ret = [ok |-> TRUE, tok |-> tm.tok0]

\* a token declared to live 0 s, stored later than at time 0 and asked for
\* again at that instant
C15_Witness ==
    /\ tm.op = "get" /\ tm.tok0 # NoToken /\ ~tm.posted
    /\ tm.at = tm.stored0 /\ tm.at > 0
    /\ tm.exp0 = tm.stored0 + 60
    /\ tm.ret = [ok |-> TRUE, tok |-> tm.tok0]

(***************************************************************************)
(* C16: during one page request (one dv_get_json call), for every sequence *)
(* of upstream answers mixing 401, transient statuses and timeouts, the    *)
(* credential is refreshed at most once, and the GET that follows the      *)
(* refresh is issued at once, without consuming a step of the ladder.      *)
(***************************************************************************)
\* the successful credential exchanges of the page request so far
Refreshes(log) == {j \in 1..Len(log) : log[j] = <<"post", 200>>}

C16_OneRefreshPerPage ==
    /\ Me.refr <= 1
    /\ Cardinality(Refreshes(Me.log)) <= 1
    /\ Me.pc \in {"get", "refpost", "get2"} => Len(Me.slept) = Me.i - 1

\* 401, a refresh, 503 to the retry, and after the sleep 401 again and a
\* second refresh, all within one page request
C16_TwoRefreshes ==
    /\ Me.log = << <<"get", 401>>, <<"post", 200>>, <<"get", 503>>,
                   <<"get", 401>>, <<"post", 200>>, <<"get", 200>> >>
    /\ Me.pc = "done" /\ Me.refr = 2 /\ Me.gets = 4
    /\ Me.slept = <<200>>

\* the part that holds: the GET after a refresh consumes no step
C16_RetryIsImmediate ==
    Me.pc \in {"get", "refpost", "get2"} => Len(Me.slept) = Me.i - 1

(***************************************************************************)
(* C17: a page request that exhausts the retry ladder fails with the       *)
(* upstream-timeout error (status 504) if and only if its last failed      *)
(* attempt was a transport-level timeout or connection error, and with the *)
(* upstream-unavailable error (status 503) otherwise, for every sequence   *)
(* of attempt outcomes mixing timeouts and retryable statuses.             *)
(***************************************************************************)
\* the page request ran out of ladder steps
LadderExhausted == Me.pc = "failed" /\ Me.res.kind \in {"timeout", "unavailable"}

\* an answer that is a transport-level failure (recorded with status 0)
IsTimeout(answer) == answer[2] = 0

C17_LastAttemptDecides ==
    LadderExhausted =>
        /\ Me.log # <<>>
        /\ Me.res.status = 504 <=> IsTimeout(Me.log[Len(Me.log)])
        /\ Me.res.status = 503 <=> ~IsTimeout(Me.log[Len(Me.log)])

\* a timeout, then 503 three times: the last attempt was answered, and the
\* request fails with 504
C17_EarlyTimeoutGives504 ==
    /\ Me.log = << <<"get", 0>>, <<"get", 503>>, <<"get", 503>>, <<"get", 503>> >>
    /\ Me.pc = "failed" /\ Me.res = Err(504, "timeout")

\* what the code does: 504 if and only if some attempt timed out
C17_AnyTimeoutDecides ==
    LadderExhausted =>
        (Me.res.status = 504 <=> \E j \in 1..Len(Me.log) : IsTimeout(Me.log[j]))

(***************************************************************************)
(* C18: a page request retries an answer if and only if its status is 429  *)
(* or any 5xx; every other status that is neither 200 nor 401 makes the    *)
(* request fail at once with an upstream error carrying that status, after *)
(* exactly one GET and without any backoff delay.                          *)
(***************************************************************************)
\* the page request has received one answer, a status
FirstStatus == IF Len(Me.log) = 1 /\ ~IsTimeout(Me.log[1]) THEN Me.log[1][2] ELSE -1

\* after one answered status the request is waiting to retry, or retrying
Retrying == Me.pc = "sleep" \/ (Me.pc = "get" /\ Me.gets = 2)

C18_RetryIff429Or5xx ==
    FirstStatus \notin {-1, 200, 401} =>
        IF FirstStatus = 429 \/ (500 <= FirstStatus /\ FirstStatus <= 599)
        THEN Retrying /\ Me.slept = <<200>>
        ELSE /\ Me.pc = "failed" /\ Me.res = Err(FirstStatus, "upstream")
             /\ Me.gets = 1 /\ Me.slept = <<>>

\* a 501 is not retried: the request fails with 501 after one GET
C18_NotRetried501 ==
    /\ FirstStatus = 501
    /\ Me.pc = "failed" /\ Me.res = Err(501, "upstream")
    /\ Me.gets = 1 /\ Me.slept = <<>>

\* what the code does: 429, 500, 502, 503 and 504 are retried, no other status
C18_RetryIffListed ==
    FirstStatus \notin {-1, 200, 401} =>
        IF FirstStatus \in {429, 500, 502, 503, 504}
        THEN Retrying /\ Me.slept = <<200>>
        ELSE /\ Me.pc = "failed" /\ Me.res = Err(FirstStatus, "upstream")
             /\ Me.gets = 1 /\ Me.slept = <<>>

(***************************************************************************)
(* C7: in every reachable state at most UPSTREAM_MAX_CONCURRENCY paged     *)
(* fetches (dv_paged_get bodies: token acquisition, page requests, retry   *)
(* sleeps) are in flight, however many requests are served concurrently.   *)
(***************************************************************************)
InGate(t) ==
    \/ task[t].pc \in {"pgpost", "get", "refpost", "get2", "sleep"}
    \/ task[t].pc = "gatewait" /\ t \notin Range(waiters)

C7_GateBound ==
    /\ Cardinality({t \in Tasks : InGate(t)}) <= UPSTREAM_MAX_CONCURRENCY
    /\ gate >= 0

\* a fetch sleeps between retries while another waits for the gate
C7_Witness ==
    \E t, u \in Tasks :
        /\ task[t].pc = "sleep"
        /\ task[u].pc = "gatewait" /\ u \in Range(waiters)
        /\ Cardinality(Tasks) > UPSTREAM_MAX_CONCURRENCY

(***************************************************************************)
(* C19: within one freshness window, for every interleaving of concurrent  *)
(* requests that share a cache key (requests that all arrive while no      *)
(* fresh entry exists included), the upstream paged fetch for that key is  *)
(* invoked at most once: no request starts a paged fetch for a key while   *)
(* another request's paged fetch for that key is under way.                *)
(***************************************************************************)
\* the task found no fresh entry and its dv_paged_get call has not returned
Fetching(t) ==
    /\ task[t].pc \in {"gatewait", "pgpost", "get", "refpost", "get2", "sleep"}
    /\ task[t].req.endpoint \in {"raw_table", "summary_cards_single"}

C19_OneFetchPerKey ==
    \A t, u \in Tasks :
        (t # u /\ Fetching(t) /\ Fetching(u)) => KeyOf(task[t]) # KeyOf(task[u])

\* two requests for one key, arrived together at time 0, have both fetched
\* the table from upstream and both stored it
C19_BothFetched ==
    /\ now = 0 /\ stat.hits = <<>>
    /\ \A t \in Tasks : task[t].pc = "done" /\ task[t].res.ok
    /\ KeyOf(task["t1"]) = KeyOf(task["t2"])
    /\ Count(stat.paged, KeyOf(task["t1"])) = 2
    /\ KeyOf(task["t1"]) \in DOMAIN table_cache

(***************************************************************************)
(* C20: over the process lifetime and for every interleaving of concurrent *)
(* resolve calls, only the first request for a logical name reaches the    *)
(* network: at most one metadata lookup request is issued per logical name *)
(* whose lookup succeeds, so no lookup for a name is issued while another  *)
(* lookup for that name awaits its answer.                                 *)
(***************************************************************************)
C20_OneLookupPerName ==
    \A t, u \in Tasks :
        (t # u /\ task[t].pc = "metaget" /\ task[u].pc = "metaget")
            => Logical(task[t].req.table_key) # Logical(task[u].req.table_key)

\* the first two requests of the process, for one logical name, have each
\* issued a metadata lookup, and both lookups were answered with the name
C20_BothLookedUp ==
    LET key == Logical(task["t1"].req.table_key) IN
    /\ budget = MaxCalls - 2
    /\ key = Logical(task["t2"].req.table_key)
    /\ Count(stat.meta, key) = 2
    /\ key \in DOMAIN es_cache
    /\ \A t \in Tasks : task[t].pc # "idle" /\ task[t].es = es_cache[key]

(***************************************************************************)
(* C21: under every interleaving of concurrent credential refreshes (from  *)
(* expired getToken calls and from 401 handling), each refresh that gets a *)
(* 200 succeeds, and in every reachable state the shared credential slot   *)
(* holds the token and the expiry written by one single completed          *)
(* exchange, the one that completed last; a token of one exchange is never *)
(* paired with the expiry of another, and a failed exchange leaves the     *)
(* slot unchanged.                                                         *)
(***************************************************************************)
\* the slot is what the exchange that completed last was answered
SlotOfLastExchange ==
    LET x == stat.xch IN
    /\ token = x.tok
    /\ expiry = IF x = NoExchange THEN 0
                ELSE x.at + Max(60, x.expires_in - 60)

\* the exchange of task t is answered in this step
ExchangeEnds(t) == task[t].pc \in PostPcs /\ task'[t] # task[t]

\* ... and the task goes on with the token it was answered
ExchangeSucceeds(t) ==
    /\ stat'.xch.by = t /\ stat'.xch.at = now
    /\ token' = stat'.xch.tok /\ token' \in up.tokens
    /\ task[t].pc = "respost" => task'[t].pc = "metaget"
    /\ task[t].pc = "pgpost" =>
           task'[t].pc = "get" /\ task'[t].hdr = token' /\ task'[t].rhdr = token'
    /\ task[t].pc = "refpost" => task'[t].pc = "get2" /\ task'[t].rhdr = token'

C21_LastWriteWins ==
    /\ []SlotOfLastExchange
    /\ [][\A t \in Tasks :
            ExchangeEnds(t) =>
                IF task'[t].pc \in {"failed", "sleep"}
                THEN UNCHANGED <<token, expiry>> /\ stat'.xch = stat.xch
                ELSE ExchangeSucceeds(t)]_vars

\* a refresh after a 401 is still awaiting its answer when the exchange of
\* an expired getToken call completes, later than the slot's token was
\* first stored, and replaces the slot
C21_Witness ==
    /\ task["t2"].pc = "refpost"
    /\ stat.xch.by = "t1" /\ stat.xch.raced /\ stat.xch.at > 0
    /\ task["t1"].pc = "metaget"
    /\ token = stat.xch.tok /\ token # task["t2"].rhdr

(***************************************************************************)
(* C22: for every sequence of upstream outcomes, an unbroken sequence of   *)
(* 401s, transient statuses or timeouts included, one page request         *)
(* terminates (with a result or an error) after at most 4 ladder attempts, *)
(* hence at most 8 GET requests and at most 4 credential exchanges; a      *)
(* transient failure (429, 5xx, timeout) surfaces to the caller only after *)
(* the ladder is exhausted.                                                *)
(***************************************************************************)
\* the page request uses at most 4 steps, 8 GETs and 4 exchanges
WithinLadder ==
    /\ Me.i <= 4 /\ Me.gets <= 8 /\ Me.refr <= 4
    /\ Len(Me.slept) <= 4 /\ Len(Me.log) <= 12

\* the page request has used every step of the ladder
AllStepsUsed == Me.i = 4 /\ Len(Me.slept) = 4

C22_TransientSurfacesLate ==
    /\ WithinLadder
    /\ (Me.pc = "failed" /\ Me.res.kind \in {"timeout", "unavailable"})
           => AllStepsUsed
    /\ (Me.pc = "failed" /\ Me.res.kind = "upstream"
           /\ (Me.res.status = 429
                 \/ (500 <= Me.res.status /\ Me.res.status <= 599)))
           => AllStepsUsed

\* a timeout, then a 501: the request fails with 501 on its second step
C22_Surfaces501Early ==
    /\ Me.log = << <<"get", 0>>, <<"get", 501>> >>
    /\ Me.pc = "failed" /\ Me.res = Err(501, "upstream")
    /\ Me.i = 2 /\ Me.slept = <<200>>

\* the part that holds: the bounds, and the errors of an exhausted ladder
C22_BoundedLadder ==
    /\ WithinLadder
    /\ (Me.pc = "failed" /\ Me.res.kind \in {"timeout", "unavailable"})
           => AllStepsUsed
    /\ (Me.pc = "failed" /\ Me.res.kind = "upstream")
           => Me.res.status \notin {429, 500, 502, 503, 504}

\* four steps, each a 401, a refresh and a 503: 8 GETs and 4 exchanges
C22_FullLadder ==
    /\ Me.pc = "failed" /\ Me.res = Err(503, "unavailable")
    /\ Me.i = 4 /\ Me.gets = 8 /\ Me.refr = 4

(***************************************************************************)
(* C23: in a multi-page fetch, once a 401 on some page has triggered a     *)
(* credential refresh, every later page request of that same fetch is sent *)
(* with the refreshed token, so that a fetch of n pages whose original     *)
(* token was revoked and whose new token is valid performs exactly one     *)
(* credential refresh and receives exactly one 401.                        *)
(***************************************************************************)
FetchAnswers(kind, status) ==
    {j \in 1..Len(Me.flog) : Me.flog[j].kind = kind /\ Me.flog[j].status = status}

\* the answer j is a refresh, and no refresh succeeded between j and k
LastRefreshBefore(j, k) ==
    /\ j \in FetchAnswers("post", 200) /\ j < k
    /\ \A m \in FetchAnswers("post", 200) : ~(j < m /\ m < k)

\* upstream rejects the token the fetch began with and accepts every other,
\* and every exchange is answered with a token
RevokedThenValid ==
    /\ Me.flog # <<>>
    /\ \A j \in 1..Len(Me.flog) :
          LET a == Me.flog[j] IN
          IF a.kind = "post" THEN a.status = 200
          ELSE a.status = (IF a.sent = Me.hdr THEN 401 ELSE 200)

C23_RefreshedTokenKept ==
    /\ \A j, k \in 1..Len(Me.flog) :
          (LastRefreshBefore(j, k) /\ Me.flog[k].kind = "get")
              => Me.flog[k].sent = Me.flog[j + 1].sent
    /\ (Me.pc = "done" /\ RevokedThenValid) =>
          /\ Cardinality(FetchAnswers("post", 200)) = 1
          /\ Cardinality(FetchAnswers("get", 401)) = 1

\* two pages: each is asked for with the revoked token, answered 401, and
\* fetched after a refresh of its own
C23_RefreshPerPage ==
    /\ Me.pc = "done" /\ Me.pg = 2 /\ Me.hdr = 1 /\ RevokedThenValid
    /\ [j \in 1..Len(Me.flog) |-> <<Me.flog[j].pg, Me.flog[j].kind, Me.flog[j].sent, Me.flog[j].status>>]
         = << <<0, "get", 1, 401>>, <<0, "post", 1, 200>>, <<0, "get", 2, 200>>,
              <<1, "get", 1, 401>>, <<1, "post", 1, 200>>, <<1, "get", 2, 200>> >>

\* the part that holds: within one page, the requests after a refresh are
\* sent with the refreshed token
C23_KeptWithinPage ==
    \A j, k \in 1..Len(Me.flog) :
        (LastRefreshBefore(j, k) /\ Me.flog[k].kind = "get"
           /\ Me.flog[k].pg = Me.flog[j].pg)
            => Me.flog[k].sent = Me.flog[j + 1].sent

(***************************************************************************)
(* C24: every paged fetch that acquires a slot of the concurrency gate     *)
(* releases it when it finishes, whether by returning rows or by failing   *)
(* (configuration error, token error, non-retryable status, retry          *)
(* exhaustion); after any sequence of fetches has completed, all           *)
(* UPSTREAM_MAX_CONCURRENCY slots are free again, and a fetch waiting on   *)
(* the gate is eventually admitted provided every admitted fetch           *)
(* terminates.                                                             *)
(***************************************************************************)
\* the task is queued on the gate
Queued(t) == task[t].pc = "gatewait" /\ t \in Range(waiters)

\* every slot is free or held by a fetch that has not finished
SlotsAccounted ==
    /\ gate + Cardinality({t \in Tasks : InGate(t)}) = UPSTREAM_MAX_CONCURRENCY
    /\ waiters # <<>> => gate = 0
    /\ \A t \in Tasks : task[t].pc \in {"done", "failed", "idle"} => ~Queued(t)
    /\ (\A t \in Tasks : task[t].pc \in {"done", "failed", "idle"}) =>
          gate = UPSTREAM_MAX_CONCURRENCY /\ waiters = <<>>

C24_GateReleased ==
    /\ []SlotsAccounted
    /\ \A t \in Tasks : Queued(t) ~> InGate(t)

\* a fetch failed inside the gate and its slot went to the fetch that was
\* queued behind it; the other failures leave the gate free as well
C24_Witness ==
    /\ task["t1"].pc = "failed" /\ task["t1"].res = Err(503, "unavailable")
    /\ task["t2"].pc = "gatewait" /\ InGate("t2")
    /\ gate = 0 /\ waiters = <<>>

(***************************************************************************)
(* C8: once a logical name is resolved, every later call of                *)
(* resolve_entity_set_from_logical for it returns the same collection and  *)
(* issues no network request; the mapping cache is append-only (no entry   *)
(* is changed or removed), and a failed lookup (a non-200 status or a      *)
(* missing EntitySetName) adds no entry.                                   *)
(***************************************************************************)
C8_ResolveCached ==
    LET key == Logical(Me.req.table_key) IN
    (Me.pc # "idle" /\ Me.req.table_key \in TableKeys) =>
        /\ \A k \in DOMAIN Me.es0 :
              k \in DOMAIN es_cache /\ es_cache[k] = Me.es0[k]
        /\ key \in DOMAIN Me.es0 =>
              /\ Me.es = Me.es0[key]
              /\ Count(stat.meta, key) = Me.m0
              /\ Me.pc \notin {"respost", "metaget"}
              /\ es_cache = Me.es0
        /\ (Me.pc = "failed" /\ Me.res.kind \in {"metadata", "no_entity_set"}) =>
              es_cache = Me.es0

\* a failed lookup, a successful one, then a call that needs none
C8_Witness ==
    LET key == Logical(Me.req.table_key) IN
    /\ key \in DOMAIN Me.es0 /\ Me.m0 = 2 /\ Count(stat.meta, key) = 2
    /\ Me.pc = "get" /\ Me.es = UpstreamEntitySet(key)

=============================================================================
